---- MODULE Spec2Model ----
(***************************************************************************)
(* Model of the slide-deck generation service: the LLMEngine orchestrator  *)
(* (app/services/llm_engine.py), the schemas it validates against          *)
(* (app/schemas) and the two HTTP endpoints in front of it                 *)
(* (app/api/v1/endpoints.py).                                              *)
(*                                                                         *)
(* The inference capability (chain.ainvoke) is the environment: every      *)
(* result it can hand back is drawn from a small set.  An action runs the  *)
(* code from one suspension point (an await of the inference call, a yield *)
(* of the generators) to the next.                                         *)
(***************************************************************************)
EXTENDS Integers, Sequences, FiniteSets, TLC

\* ------------------------------------------------------------------ bounds

\* Largest n_slides a request of the model carries (the code allows 1..15).
MaxSlides == 3
\* Longest list the agenda-planning response of the model holds.
MaxList == 4
MaxDeck == 5
MaxStrLen == 2
MaxPad == 2
MaxRunSlides == 2

\* ------------------------------------------------------- program constants

\* LessonRequest.n_slides: Field(ge=1, le=15)
NSlidesMin == 1
NSlidesMax == 15
OptionsMin == 2
OptionsMax == 5
TopicMin == 3
TopicMax == 100
GradeMin == 1
GradeMax == 50

Min(a, b) == IF a < b THEN a ELSE b

NSlidesRange == NSlidesMin .. Min(MaxSlides, NSlidesMax)

\* Python's None, as the value of an optional field.
None == "None"

\* SlideType(str, Enum): the members, by their values.
TITLE == "title"
AGENDA == "agenda"
CONTENT == "content"
CONCLUSION == "conclusion"
SlideType == {TITLE, AGENDA, CONTENT, CONCLUSION}

\* Messages an unexpected exception of the inference call may carry.
Msgs == {"connection reset by 10.0.0.7", "quota exceeded for key sk-1"}

\* ------------------------------------------------------------ Slide schema

\* The validator with CONCLUSION left out of the tuple of types it checks.
validate_slide_structure_NoConclusion(type, question) ==
    IF type \in {TITLE, AGENDA}
    THEN question = None
    ELSE TRUE

\* Slide.validate_slide_structure: a question only on a content slide.
\* TRUE when construction succeeds, FALSE when it raises ValidationError.
validate_slide_structure(type, question) ==
    IF type \in {TITLE, AGENDA, CONCLUSION}
    THEN question = None
    ELSE TRUE

\* The field values the inference capability fills a slide with.
SlideTitles == {"Slide title"}
SlideContents == {"Slide text"}
SlideImages == {None, "image query"}
SlideQuestions == {None, "question"}

\* Every Slide object that can exist: the fields of the model, the validator passed.
Slide ==
    {s \in [type : SlideType, title : SlideTitles, content : SlideContents,
            image : SlideImages, question : SlideQuestions] :
        validate_slide_structure(s.type, s.question)}

\* Stands where no slide is (an event that carries none).
NoSlide == [type |-> None, title |-> None, content |-> None, image |-> None, question |-> None]

\* ------------------------------------------- agenda planning (_plan_agenda)

\* The text of the agenda-planning response is a sequence of lexical tokens:
\* a code fence, a newline, a blank, a bare word, JSON punctuation, a JSON
\* string literal, a JSON number literal.
\* the markdown code fence (three backticks)
Fence == [k |-> "fence", v |-> "~~~"]
NL == [k |-> "nl", v |-> "\n"]
SP == [k |-> "ws", v |-> " "]
Word(w) == [k |-> "word", v |-> w]
P(c) == [k |-> "punct", v |-> c]
StrLit(x) == [k |-> "str", v |-> x]
NumLit(x) == [k |-> "num", v |-> x]

\* Python values a JSON scalar parses to.
PyStr(x) == [py |-> "str", v |-> x]
PyInt(x) == [py |-> "int", v |-> x]

IsSpace(t) == t.k \in {"nl", "ws"}

RECURSIVE lstrip(_)
\* str.lstrip(): leading whitespace removed.
lstrip(c) == IF c # <<>> /\ IsSpace(Head(c)) THEN lstrip(Tail(c)) ELSE c

RECURSIVE rstrip(_)
\* str.rstrip(): trailing whitespace removed.
rstrip(c) ==
    IF c # <<>> /\ IsSpace(c[Len(c)]) THEN rstrip(SubSeq(c, 1, Len(c) - 1)) ELSE c

\* str.strip()
strip(c) == rstrip(lstrip(c))

\* content.startswith(fence) / content.endswith(fence)
startswith_fence(c) == c # <<>> /\ Head(c) = Fence
endswith_fence(c) == c # <<>> /\ c[Len(c)] = Fence

\* "\n" in content
has_newline(c) == \E i \in 1 .. Len(c) : c[i] = NL

\* content.split("\n", 1)[1]: what follows the first newline.
after_first_newline(c) ==
    LET i == CHOOSE j \in 1 .. Len(c) :
                 c[j] = NL /\ \A m \in 1 .. j - 1 : c[m] # NL
    IN SubSeq(c, i + 1, Len(c))

\* content.rsplit(fence, 1)[0]: what precedes the last fence.
before_last_fence(c) ==
    LET i == CHOOSE j \in 1 .. Len(c) :
                 c[j] = Fence /\ \A m \in j + 1 .. Len(c) : c[m] # Fence
    IN SubSeq(c, 1, i - 1)

\* The clean-up of the response before json.loads: markdown fences removed.
strip_code_fence(raw) ==
    LET c0 == strip(raw)
        c1 == IF startswith_fence(c0)
              THEN (IF has_newline(c0) THEN after_first_newline(c0) ELSE Tail(c0))
              ELSE c0
        c2 == IF endswith_fence(c1) THEN before_last_fence(c1) ELSE c1
    IN strip(c2)

RECURSIVE drop_space(_)
\* JSON ignores whitespace between tokens.
drop_space(c) ==
    IF c = <<>> THEN <<>>
    ELSE IF IsSpace(Head(c)) THEN drop_space(Tail(c))
    ELSE <<Head(c)>> \o drop_space(Tail(c))

IsScalar(t) == t.k \in {"str", "num"}
Scalar(t) == IF t.k = "str" THEN PyStr(t.v) ELSE PyInt(t.v)

\* The elements of a JSON array: scalars at the odd positions, commas between.
IsElements(e) ==
    /\ Len(e) % 2 = 1
    /\ \A i \in 1 .. Len(e) :
          IF i % 2 = 1 THEN IsScalar(e[i]) ELSE e[i] = P(",")

JSONDecodeError == [ok |-> FALSE, kind |-> "JSONDecodeError", items |-> <<>>]

\* json.loads on the documents of the model: a scalar, an empty object, a
\* flat array of scalars; anything else is a JSONDecodeError.
json_loads(content) ==
    LET c == drop_space(content)
        n == Len(c)
    IN IF n = 1 /\ IsScalar(c[1])
       THEN [ok |-> TRUE, kind |-> "scalar", items |-> <<Scalar(c[1])>>]
       ELSE IF c = <<P("{"), P("}")>>
       THEN [ok |-> TRUE, kind |-> "dict", items |-> <<>>]
       ELSE IF c = <<P("["), P("]")>>
       THEN [ok |-> TRUE, kind |-> "list", items |-> <<>>]
       ELSE IF n >= 3 /\ c[1] = P("[") /\ c[n] = P("]") /\ IsElements(SubSeq(c, 2, n - 1))
       THEN [ok |-> TRUE, kind |-> "list",
             items |-> [i \in 1 .. (n - 1) \div 2 |-> Scalar(c[2 * i])]]
       ELSE JSONDecodeError

\* The whole list, whatever its length.
Truncate_NoCut(s, n) == s

\* The slice that would fill a shorter list up to n entries.
Truncate_Pad(s, n) ==
    [i \in 1 .. n |-> IF i <= Len(s) THEN s[i] ELSE [py |-> "str", v |-> "Topic"]]

\* subtopics[: request.n_slides]
Truncate(s, n) == SubSeq(s, 1, Min(Len(s), n))

\* [f"Topic {i + 1}" for i in range(request.n_slides)]
FallbackTopics(n) == [i \in 1 .. n |-> PyStr("Topic " \o ToString(i))]

\* The try block of _plan_agenda: the parsed list cut to n_slides entries, the
\* generic topics when json.loads fails or the document is no list.
ParseAgenda(content, n) ==
    LET r == json_loads(content)
    IN IF r.ok /\ r.kind = "list"
       THEN Truncate(r.items, n)
       ELSE FallbackTopics(n)

\* _plan_agenda from the response text on: the list of subtopics it returns.
plan_agenda(raw, n) == ParseAgenda(strip_code_fence(raw), n)

\* The agenda-planning responses of the model.
RECURSIVE Elements(_, _)
Elements(lit, len) ==
    IF len = 0 THEN <<>>
    ELSE IF len = 1 THEN <<lit[1]>>
    ELSE Elements(lit, len - 1) \o <<P(","), SP, lit[len]>>

StrLits == [i \in 1 .. MaxList |-> StrLit("Subtopic " \o ToString(i))]
NumLits == [i \in 1 .. MaxList |-> NumLit(ToString(i))]
\* a list whose first element is a string and whose others are numbers
MixLits == [i \in 1 .. MaxList |-> IF i = 1 THEN StrLits[1] ELSE NumLits[i]]

JsonList(lit, len) == <<P("[")>> \o Elements(lit, len) \o <<P("]")>>

AgendaResponses ==
    {JsonList(StrLits, len) : len \in 0 .. MaxList}
    \cup {JsonList(NumLits, len) : len \in 1 .. 2}
    \cup {JsonList(MixLits, 2)}
    \cup { <<Fence, Word("json"), NL>> \o JsonList(StrLits, 2) \o <<NL, Fence>>,
           <<SP, Fence>> \o JsonList(StrLits, 1) \o <<Fence, NL>>,
           <<Fence, Word("json"), SP>> \o JsonList(StrLits, 2) \o <<SP, Fence>>,
           <<Word("Here"), SP, Word("you"), SP, Word("go")>>,
           <<P("{"), P("}")>>,
           <<StrLit("Subtopic 1")>>,
           <<P("["), StrLit("Subtopic 1"), P(",")>>,
           <<>> }

\* ------------------------------------------------------ Presentation schema

\* The position the validator names when a middle slide is not a content
\* slide: enumerate(content_slides, start=2) reports idx + 1, the 1-based
\* position in the deck of the first such slide (0 when there is none).
content_type_position(slides) ==
    LET bad == {i \in 3 .. Len(slides) - 1 : slides[i].type # CONTENT}
    IN IF bad = {} THEN 0 ELSE CHOOSE i \in bad : \A j \in bad : i <= j

\* The validator without its count of the questions.
validate_presentation_structure_NoQuestionCount(slides) ==
    LET n == Len(slides)
    IN IF n < 3 THEN "min_length"
       ELSE IF slides[1].type # TITLE THEN "first_title"
       ELSE IF slides[2].type # AGENDA THEN "second_agenda"
       ELSE IF slides[n].type # CONCLUSION THEN "last_conclusion"
       ELSE IF n = 3 THEN "content_nonempty"
       ELSE IF content_type_position(slides) # 0 THEN "content_type"
       ELSE "ok"

\* The validator with the check of the last slide moved in front of the
\* checks of the first two.
validate_presentation_structure_ConclusionFirst(slides) ==
    LET n == Len(slides)
        questions == {i \in 1 .. n : slides[i].question # None}
    IN IF n < 3 THEN "min_length"
       ELSE IF slides[n].type # CONCLUSION THEN "last_conclusion"
       ELSE IF slides[1].type # TITLE THEN "first_title"
       ELSE IF slides[2].type # AGENDA THEN "second_agenda"
       ELSE IF n = 3 THEN "content_nonempty"
       ELSE IF content_type_position(slides) # 0 THEN "content_type"
       ELSE IF Cardinality(questions) > 1 THEN "one_question"
       ELSE "ok"

\* Presentation.validate_presentation_structure: "ok", or the rule that
\* raised (min_length=3 of the slides field is checked before the validator).
validate_presentation_structure(slides) ==
    LET n == Len(slides)
        content_slides == SubSeq(slides, 3, n - 1)
        questions == {i \in 1 .. n : slides[i].question # None}
    IN IF n < 3 THEN "min_length"
       ELSE IF slides[1].type # TITLE THEN "first_title"
       ELSE IF slides[2].type # AGENDA THEN "second_agenda"
       ELSE IF slides[n].type # CONCLUSION THEN "last_conclusion"
       ELSE IF content_slides = <<>> THEN "content_nonempty"
       ELSE IF \E i \in 1 .. Len(content_slides) : content_slides[i].type # CONTENT
       THEN "content_type"
       ELSE IF Cardinality(questions) > 1 THEN "one_question"
       ELSE IF \E i \in questions : slides[i].type # CONTENT THEN "question_on_content"
       ELSE "ok"

SlidesOfType(t) == {s \in Slide : s.type = t}

\* Slide lists of the shape a deck has, with c slides in the middle.
DeckLists(c) ==
    {<<t, a>> \o m \o <<z>> :
        t \in SlidesOfType(TITLE), a \in SlidesOfType(AGENDA),
        m \in [1 .. c -> SlidesOfType(CONTENT)], z \in SlidesOfType(CONCLUSION)}

\* The Presentation objects the inference capability can hand back: slide
\* lists that pass the validator.
Presentation ==
    {p \in UNION {DeckLists(c) : c \in 1 .. MaxSlides} :
        validate_presentation_structure(p) = "ok"}

\* ------------------------------------------------- results of chain.ainvoke

NoMsg == ""
PydanticMsg == "1 validation error"

\* A result of chain.ainvoke: the object returned (a Slide, a Presentation, a
\* message with its text, an object of another type) or the exception raised.
Result(kind, slide, slides, content) ==
    [kind |-> kind, slide |-> slide, slides |-> slides, content |-> content,
     exc |-> None, msg |-> NoMsg]
Raises(cls, m) ==
    [kind |-> "raise", slide |-> NoSlide, slides |-> <<>>, content |-> <<>>,
     exc |-> cls, msg |-> m]
OtherObject == Result("other", NoSlide, <<>>, <<>>)
RaisesValidationError == Raises("ValidationError", PydanticMsg)
NoResult == Result("none", NoSlide, <<>>, <<>>)

\* What one await of chain.ainvoke of a slide step can end with: a Slide, an
\* object that is no Slide, a pydantic ValidationError, any other exception.
SlideResults ==
    {Result("slide", s, <<>>, <<>>) : s \in Slide}
    \cup {OtherObject, RaisesValidationError}
    \cup {Raises("Exception", m) : m \in Msgs}

\* What the agenda-planning call can end with: a message, a pydantic
\* ValidationError, any other exception.
PlanResults ==
    {Result("message", NoSlide, <<>>, c) : c \in AgendaResponses}
    \cup {RaisesValidationError}
    \cup {Raises("Exception", m) : m \in Msgs}

\* What the one-shot call can end with.
PresentationResults ==
    {Result("presentation", NoSlide, p, <<>>) : p \in Presentation}
    \cup {OtherObject, RaisesValidationError}
    \cup {Raises("Exception", m) : m \in Msgs}

\* ------------------------------------------------------------- LLMEngine

\* The outcome of a call: a value returned, or an exception raised.
Returned(v) == [raised |-> FALSE, value |-> v, exc |-> None, msg |-> NoMsg]
Raised(cls, m) == [raised |-> TRUE, value |-> <<>>, exc |-> cls, msg |-> m]

\* The except clauses of generate_presentation, on an exception of class cls
\* raised in its try block.  LLMValidationError is no pydantic ValidationError:
\* the second clause catches it.
generate_presentation_except(cls, m) ==
    IF cls = "ValidationError"
    THEN Raised("LLMValidationError",
                "Generated content doesn't match Presentation schema: " \o m)
    ELSE Raised("LLMGenerationError", "Failed to generate presentation: " \o m)

\* generate_presentation without its isinstance check: whatever the
\* inference call returned is returned.
generate_presentation_NoTypeCheck(res) ==
    IF res.kind = "raise" THEN generate_presentation_except(res.exc, res.msg)
    ELSE Returned(res.slides)

\* generate_presentation, from the result of chain.ainvoke on.
generate_presentation(res) ==
    IF res.kind = "raise" THEN generate_presentation_except(res.exc, res.msg)
    ELSE IF res.kind # "presentation"
    THEN generate_presentation_except(
             "LLMValidationError",
             "LLM returned unexpected type: dict. Expected Presentation.")
    ELSE Returned(res.slides)

\* _generate_single_slide returning the slide as the call returned it.
generate_single_slide_NoForcing(slide_type, res) ==
    IF res.kind = "raise" THEN Raised(res.exc, res.msg)
    ELSE IF res.kind # "slide" THEN Raised("LLMValidationError", "Expected Slide, got dict")
    ELSE Returned(res.slide)

\* _generate_single_slide, from the result of chain.ainvoke on: the slide it
\* returns (its type forced to slide_type) or the exception that leaves it.
generate_single_slide(slide_type, res) ==
    IF res.kind = "raise" THEN Raised(res.exc, res.msg)
    ELSE IF res.kind # "slide" THEN Raised("LLMValidationError", "Expected Slide, got dict")
    ELSE IF res.slide.type # slide_type
    THEN (IF validate_slide_structure(slide_type, res.slide.question)
          THEN Returned([type |-> slide_type, title |-> res.slide.title,
                         content |-> res.slide.content, image |-> res.slide.image,
                         question |-> res.slide.question])
          ELSE Raised("ValidationError", PydanticMsg))
    ELSE Returned(res.slide)

\* The except clauses of stream_presentation.
stream_presentation_except(cls, m) ==
    IF cls = "ValidationError"
    THEN Raised("LLMValidationError", "Streamed content doesn't match Slide schema: " \o m)
    ELSE Raised("LLMGenerationError", "Failed to stream presentation: " \o m)

\* include_image = i % 2 == 0
include_image(i) == i % 2 = 0

\* question_slide_index = request.n_slides // 2; include_question = i == question_slide_index
include_question(i, n) == i = n \div 2

\* One inference call, as the engine issues it.
\* The instruction fragments _generate_single_slide puts into the content
\* prompt: the text when the flag is set, the empty str otherwise.
ImageInstruction == "- Include an \"image\" field with a relevant search query for an image"
QuestionInstruction ==
    "- Include a \"question\" field with a multiple choice question (prompt, options array with 4 choices, and answer)"

\* The image instruction put into the prompt whatever the flag.
image_instruction_Always(include) == ImageInstruction

image_instruction(include) == IF include THEN ImageInstruction ELSE ""
question_instruction(include) == IF include THEN QuestionInstruction ELSE ""

\* The user prompt of a call, as the lines that vary with the step: the
\* template, and for CONTENT_SLIDE_PROMPT the two instruction lines.  The
\* one-shot call is built by _build_chain, the planning call by
\* _plan_agenda, the slide calls by _generate_single_slide, which renders
\* no prompt for any other slide type (it raises ValueError).
user_prompt(target, img, q) ==
    IF target = CONTENT
    THEN <<"CONTENT_SLIDE_PROMPT", image_instruction(img), question_instruction(q)>>
    ELSE IF target = TITLE THEN <<"TITLE_SLIDE_PROMPT">>
    ELSE IF target = AGENDA THEN <<"AGENDA_SLIDE_PROMPT">>
    ELSE IF target = CONCLUSION THEN <<"CONCLUSION_SLIDE_PROMPT">>
    ELSE IF target = "presentation" THEN <<"USER_PROMPT_TEMPLATE">>
    ELSE IF target = "agenda_planning" THEN <<"AGENDA_PLANNING_PROMPT">>
    ELSE <<>>

Call(target, i, img, q) ==
    [target |-> target, i |-> i, include_image |-> img, include_question |-> q,
     prompt |-> user_prompt(target, img, q)]

ContentCall(i, n) == Call(CONTENT, i, include_image(i), include_question(i, n))

\* ------------------------------------------------------------- endpoints

\* generate_slides with one except clause for every exception: each failure
\* of generate_presentation answered 500.
generate_slides_OneExceptClause(outcome) ==
    IF ~outcome.raised
    THEN [status |-> 200, detail |-> NoMsg, body |-> outcome.value]
    ELSE [status |-> 500, detail |-> "AI generation failed: " \o outcome.msg, body |-> <<>>]

\* generate_slides: the HTTP response for an outcome of generate_presentation.
generate_slides(outcome) ==
    IF ~outcome.raised
    THEN [status |-> 200, detail |-> NoMsg, body |-> outcome.value]
    ELSE IF outcome.exc = "LLMValidationError"
    THEN [status |-> 422,
          detail |-> "Generated content doesn't match expected schema: " \o outcome.msg,
          body |-> <<>>]
    ELSE IF outcome.exc = "LLMGenerationError"
    THEN [status |-> 500, detail |-> "AI generation failed: " \o outcome.msg, body |-> <<>>]
    ELSE [status |-> 500,
          detail |-> "An unexpected error occurred. Please try again later.",
          body |-> <<>>]

\* The server-sent events of sse_generator.
SlideEvent(s) == [event |-> "message", slide |-> s, error |-> NoMsg, detail |-> NoMsg]
DoneEvent == [event |-> "done", slide |-> NoSlide, error |-> NoMsg, detail |-> "[DONE]"]
ErrorEvent(e, d) == [event |-> "error", slide |-> NoSlide, error |-> e, detail |-> d]

\* The except clauses of sse_generator: the error event for an exception that
\* left engine.stream_presentation.
sse_error_event(cls, m) ==
    IF cls = "LLMValidationError" THEN ErrorEvent("Validation error", m)
    ELSE IF cls = "LLMGenerationError" THEN ErrorEvent("Generation error", m)
    ELSE ErrorEvent("Unexpected error", m)

\* ------------------------------------------------------------------ state

VARIABLES
    endpoint,        \* the route of the request: "none", "slide", "streaming"
    engine,          \* what Depends(get_llm_engine) injected: "LLMEngine" or "override"
    n_slides,        \* request.n_slides
    pc,              \* where the request's control flow is suspended
    step,            \* stream_presentation: the slide step whose call is awaited or was yielded
    last_result,     \* what the latest inference call that ended handed back
    subtopics,       \* stream_presentation: the planned subtopics
    calls,           \* the inference calls issued so far, in order
    yielded,         \* the slides stream_presentation yielded so far, in order
    outcome,         \* how the engine's operation ended
    events,          \* the server-sent events sse_generator yielded so far, in order
    response,        \* the HTTP response of the one-shot endpoint
    construct,       \* the latest construction of a schema model: its input and how it ended
    runs             \* two invocations of stream_presentation running interleaved

vars == <<endpoint, engine, n_slides, pc, step, last_result, subtopics, calls,
          yielded, outcome, events, response, construct, runs>>

Pending == [raised |-> FALSE, value |-> <<>>, exc |-> "pending", msg |-> NoMsg]
NoResponse == [status |-> 0, detail |-> NoMsg, body |-> <<>>]
NoStep == [type |-> None, i |-> 0]
Step(t, i) == [type |-> t, i |-> i]
NoConstruct == [model |-> None]
NoRuns == <<>>

Init ==
    /\ endpoint = "none"
    /\ engine = "LLMEngine"
    /\ n_slides \in NSlidesRange
    /\ pc = "idle"
    /\ step = NoStep
    /\ last_result = NoResult
    /\ subtopics = <<>>
    /\ calls = <<>>
    /\ yielded = <<>>
    /\ outcome = Pending
    /\ events = <<>>
    /\ response = NoResponse
    /\ construct = NoConstruct
    /\ runs = NoRuns

\* ------------------------------------------------- one-shot: POST /slide

\* generate_slides calls engine.generate_presentation, which builds the chain
\* and awaits chain.ainvoke.
PostSlide ==
    /\ pc = "idle"
    /\ endpoint' = "slide"
    /\ calls' = <<Call("presentation", 0, FALSE, FALSE)>>
    /\ pc' = "await_presentation"
    /\ UNCHANGED <<construct, runs, engine, n_slides, step, last_result, subtopics, yielded, outcome,
                   events, response>>

\* chain.ainvoke ends; generate_presentation returns or raises and
\* generate_slides turns that into the HTTP response.
PresentationReturns ==
    /\ pc = "await_presentation"
    /\ \E res \in PresentationResults :
          /\ last_result' = res
          /\ outcome' = generate_presentation(res)
          /\ response' = generate_slides(outcome')
    /\ pc' = "responded"
    /\ UNCHANGED <<construct, runs, endpoint, engine, n_slides, step, subtopics, calls, yielded, events>>

\* The outcomes of generate_presentation of an engine put in place of
\* LLMEngine through app.dependency_overrides.
OverrideOutcomes ==
    {Returned(p) : p \in {q \in Presentation : Len(q) = 4}}
    \cup {Raised(cls, m) :
            cls \in {"LLMValidationError", "LLMGenerationError", "RuntimeError"},
            m \in Msgs}

\* POST /slide with the engine overridden: generate_slides maps whatever
\* the substitute's generate_presentation does.
PostSlideOverride ==
    /\ pc = "idle"
    /\ endpoint' = "slide"
    /\ engine' = "override"
    /\ \E o \in OverrideOutcomes :
          /\ outcome' = o
          /\ response' = generate_slides(o)
    /\ pc' = "responded"
    /\ UNCHANGED <<construct, runs, n_slides, step, last_result, subtopics, calls, yielded, events>>

\* --------------------------------------------- streaming: POST /streaming

\* The server starts iterating sse_generator, which starts iterating
\* stream_presentation, which calls _plan_agenda: the first await.
PostStreaming ==
    /\ pc = "idle"
    /\ endpoint' = "streaming"
    /\ calls' = <<Call("agenda_planning", 0, FALSE, FALSE)>>
    /\ pc' = "await_agenda_planning"
    /\ UNCHANGED <<construct, runs, engine, n_slides, step, last_result, subtopics, yielded, outcome,
                   events, response>>

\* sse_generator with the done event yielded after the try statement instead
\* of inside it: a failed stream ends with the error event and the done event.
StreamRaises_DoneAfterTry(cls, m) ==
    /\ outcome' = stream_presentation_except(cls, m)
    /\ events' = events \o <<sse_error_event(outcome'.exc, outcome'.msg), DoneEvent>>
    /\ pc' = "terminal_yielded"

\* stream_presentation raises: its except clauses classify the exception,
\* sse_generator catches the result and yields the error event.
StreamRaises(cls, m) ==
    /\ outcome' = stream_presentation_except(cls, m)
    /\ events' = Append(events, sse_error_event(outcome'.exc, outcome'.msg))
    /\ pc' = "terminal_yielded"

\* _plan_agenda catching the failure of its call and returning the generic
\* topics: the stream goes on with the title slide.
AgendaPlanningFails_Fallback ==
    /\ pc = "await_agenda_planning"
    /\ \E res \in PlanResults :
          /\ res.kind = "raise"
          /\ last_result' = res
          /\ subtopics' = FallbackTopics(n_slides)
    /\ step' = Step(TITLE, 0)
    /\ calls' = Append(calls, Call(TITLE, 0, FALSE, FALSE))
    /\ pc' = "await_slide"
    /\ UNCHANGED <<construct, runs, endpoint, engine, n_slides, yielded, outcome, events, response>>

\* The agenda-planning call raises: nothing in _plan_agenda catches it.
AgendaPlanningFails ==
    /\ pc = "await_agenda_planning"
    /\ \E res \in PlanResults :
          /\ res.kind = "raise"
          /\ last_result' = res
          /\ StreamRaises(res.exc, res.msg)
    /\ UNCHANGED <<construct, runs, endpoint, engine, n_slides, step, subtopics, calls, yielded, response>>

\* The agenda-planning call returns a message: _plan_agenda parses it and
\* stream_presentation issues the call of the title slide.
AgendaPlanningReturns ==
    /\ pc = "await_agenda_planning"
    /\ \E res \in PlanResults :
          /\ res.kind = "message"
          /\ last_result' = res
          /\ subtopics' = plan_agenda(res.content, n_slides)
    /\ step' = Step(TITLE, 0)
    /\ calls' = Append(calls, Call(TITLE, 0, FALSE, FALSE))
    /\ pc' = "await_slide"
    /\ UNCHANGED <<construct, runs, endpoint, engine, n_slides, yielded, outcome, events, response>>

\* The call of the current slide step ends and _generate_single_slide returns
\* a slide: stream_presentation yields it, sse_generator yields its event.
SlideYielded ==
    /\ pc = "await_slide"
    /\ \E res \in SlideResults :
          LET r == generate_single_slide(step.type, res)
          IN /\ ~r.raised
             /\ last_result' = res
             /\ yielded' = Append(yielded, r.value)
             /\ events' = Append(events, SlideEvent(r.value))
    /\ pc' = "slide_yielded"
    /\ UNCHANGED <<construct, runs, endpoint, engine, n_slides, step, subtopics, calls, outcome, response>>

\* The call of the current slide step ends and _generate_single_slide raises.
SlideFails ==
    /\ pc = "await_slide"
    /\ \E res \in SlideResults :
          LET r == generate_single_slide(step.type, res)
          IN /\ r.raised
             /\ last_result' = res
             /\ StreamRaises(r.exc, r.msg)
    /\ UNCHANGED <<construct, runs, endpoint, engine, n_slides, step, subtopics, calls, yielded, response>>

\* stream_presentation without its agenda-slide step.
NextStep_SkipAgenda(st, topics) ==
    IF st.type \in {TITLE, AGENDA}
    THEN (IF Len(topics) > 0 THEN Step(CONTENT, 0) ELSE Step(CONCLUSION, 0))
    ELSE IF st.type = CONTENT /\ st.i + 1 < Len(topics) THEN Step(CONTENT, st.i + 1)
    ELSE Step(CONCLUSION, 0)

\* The step that follows step st in stream_presentation: the agenda slide
\* after the title, then one content step per planned subtopic
\* (for i, subtopic in enumerate(subtopics)), then the conclusion.
NextStep(st, topics) ==
    IF st.type = TITLE THEN Step(AGENDA, 0)
    ELSE IF st.type = AGENDA
    THEN (IF Len(topics) > 0 THEN Step(CONTENT, 0) ELSE Step(CONCLUSION, 0))
    ELSE IF st.type = CONTENT /\ st.i + 1 < Len(topics) THEN Step(CONTENT, st.i + 1)
    ELSE Step(CONCLUSION, 0)

\* The call stream_presentation issues for a step.
StepCall(st, n) ==
    IF st.type = CONTENT THEN ContentCall(st.i, n) ELSE Call(st.type, 0, FALSE, FALSE)

\* stream_presentation issuing the calls of all content slides together
\* once the agenda slide was yielded, and awaiting them one by one.
IssueNextCall_FanOut ==
    /\ pc = "slide_yielded"
    /\ step.type # CONCLUSION
    /\ step' = NextStep(step, subtopics)
    /\ calls' = IF step'.type # CONTENT THEN Append(calls, StepCall(step', n_slides))
                ELSE IF step'.i > 0 THEN calls
                ELSE calls \o [i \in 1 .. Len(subtopics) |-> ContentCall(i - 1, n_slides)]
    /\ pc' = "await_slide"
    /\ UNCHANGED <<construct, runs, endpoint, engine, n_slides, last_result, subtopics, yielded,
                   outcome, events, response>>

\* The consumer asked for the next event: stream_presentation resumes after
\* its yield and issues the call of the next step.
IssueNextCall ==
    /\ pc = "slide_yielded"
    /\ step.type # CONCLUSION
    /\ step' = NextStep(step, subtopics)
    /\ calls' = Append(calls, StepCall(step', n_slides))
    /\ pc' = "await_slide"
    /\ UNCHANGED <<construct, runs, endpoint, engine, n_slides, last_result, subtopics, yielded,
                   outcome, events, response>>

\* sse_generator without its yield of the done event.
StreamCompletes_NoDoneEvent ==
    /\ pc = "slide_yielded"
    /\ step.type = CONCLUSION
    /\ outcome' = Returned(<<>>)
    /\ pc' = "terminal_yielded"
    /\ UNCHANGED <<construct, runs, endpoint, engine, n_slides, step, last_result, subtopics, calls,
                   yielded, events, response>>

\* Resumed after the conclusion slide, stream_presentation ends and
\* sse_generator yields the done event.
StreamCompletes ==
    /\ pc = "slide_yielded"
    /\ step.type = CONCLUSION
    /\ outcome' = Returned(<<>>)
    /\ events' = Append(events, DoneEvent)
    /\ pc' = "terminal_yielded"
    /\ UNCHANGED <<construct, runs, endpoint, engine, n_slides, step, last_result, subtopics, calls,
                   yielded, response>>

\* Resumed after its terminal event, sse_generator ends: the response is complete.
StreamCloses ==
    /\ pc = "terminal_yielded"
    /\ pc' = "closed"
    /\ UNCHANGED <<construct, runs, endpoint, engine, n_slides, step, last_result, subtopics, calls,
                   yielded, outcome, events, response>>

\* The suspension points of a stream: an await of an inference call, the
\* yield of a slide, or the yield of the terminal event by sse_generator.
Suspended ==
    pc \in {"await_agenda_planning", "await_slide", "slide_yielded", "terminal_yielded"}

\* The disconnect handled as a failure of the stream: an error event is
\* yielded for it.
ConsumerDisconnects_ErrorEvent ==
    /\ endpoint = "streaming"
    /\ Suspended
    /\ outcome' = stream_presentation_except("Exception", "connection reset by 10.0.0.7")
    /\ events' = Append(events, sse_error_event(outcome'.exc, outcome'.msg))
    /\ pc' = "cancelled"
    /\ UNCHANGED <<construct, runs, endpoint, engine, n_slides, step, last_result, subtopics,
                   calls, yielded, response>>

\* The consumer stops iterating: the generators are closed where they are
\* suspended.  GeneratorExit at a yield and CancelledError at an await are
\* no subclasses of Exception, so no except clause of stream_presentation
\* or of sse_generator handles them and nothing more runs.  Left at the
\* yield of its terminal event, sse_generator is never resumed: the
\* outcome and the events stay as they are.
ConsumerDisconnects ==
    /\ endpoint = "streaming"
    /\ Suspended
    /\ pc' = "cancelled"
    /\ UNCHANGED <<construct, runs, endpoint, engine, n_slides, step, last_result, subtopics,
                   calls, yielded, outcome, events, response>>

Next ==
    \/ PostSlide
    \/ PresentationReturns
    \/ PostSlideOverride
    \/ PostStreaming
    \/ AgendaPlanningFails
    \/ AgendaPlanningReturns
    \/ SlideYielded
    \/ SlideFails
    \/ IssueNextCall
    \/ StreamCompletes
    \/ StreamCloses
    \/ ConsumerDisconnects

Spec == Init /\ [][Next]_vars

\* Every inference call a run awaits returns or fails, the event loop
\* resumes a generator whose consumer asks for its next element, and the
\* consumer either keeps asking or leaves.
Fairness ==
    /\ WF_vars(PostSlide \/ PostSlideOverride \/ PostStreaming)
    /\ WF_vars(PresentationReturns)
    /\ WF_vars(AgendaPlanningReturns \/ AgendaPlanningFails)
    /\ WF_vars(SlideYielded \/ SlideFails)
    /\ WF_vars(IssueNextCall \/ StreamCompletes \/ ConsumerDisconnects)
    /\ WF_vars(StreamCloses)

LiveSpec == Spec /\ Fairness

\* =================================================================== claims

Streaming == endpoint = "streaming"
OneShot == endpoint = "slide"

\* sse_generator has yielded its last event (and may have ended).
StreamOver == Streaming /\ pc \in {"terminal_yielded", "closed"}

\* stream_presentation ran to its end without raising.
StreamCompleted == StreamOver /\ outcome = Returned(<<>>)

\* stream_presentation raised.
StreamFailed == StreamOver /\ outcome.raised

Types(slides) == [i \in 1 .. Len(slides) |-> slides[i].type]

\* [TITLE, AGENDA, CONTENT x k, CONCLUSION]
DeckTypes(k) == <<TITLE, AGENDA>> \o [i \in 1 .. k |-> CONTENT] \o <<CONCLUSION>>

\* The positions of the slides that carry a question.
WithQuestion(slides) == {i \in 1 .. Len(slides) : slides[i].question # None}

\* The content steps issued with include_question = true.
QuestionCalls == {c \in 1 .. Len(calls) : calls[c].target = CONTENT /\ calls[c].include_question}

\* The positions of the terminal events (done, error) among the events.
TerminalEvents == {i \in 1 .. Len(events) : events[i].event \in {"done", "error"}}

\* The agenda-planning response parses as a list of strings.
IsListOfStrings(raw) ==
    LET r == json_loads(strip_code_fence(raw))
    IN r.ok /\ r.kind = "list" /\ \A i \in 1 .. Len(r.items) : r.items[i].py = "str"

\* _plan_agenda has just returned: the title call is awaited, the response is at hand.
AgendaJustPlanned ==
    Streaming /\ pc = "await_slide" /\ step.type = TITLE /\ last_result.kind = "message"

\* The result of a slide step is a schema mismatch: no Slide, or a Slide
\* that fails validation (in the inference call or when its type is forced).
SchemaMismatch(st, res) ==
    \/ res.kind = "other"
    \/ res.kind = "raise" /\ res.exc = "ValidationError"
    \/ res.kind = "slide" /\ ~validate_slide_structure(st.type, res.slide.question)

\* C1: a completed stream_presentation run for n_slides = k has yielded
\* exactly k + 3 slides of types TITLE, AGENDA, CONTENT x k, CONCLUSION,
\* whatever list agenda planning returned.
C1_StreamYieldsKPlus3 ==
    StreamCompleted => Types(yielded) = DeckTypes(n_slides)

\* C2: in a completed stream_presentation run exactly one content step was
\* issued with include_question = true, the one with index n_slides // 2.
C2_ExactlyOneQuestionStep ==
    StreamCompleted =>
        /\ Cardinality(QuestionCalls) = 1
        /\ \A c \in QuestionCalls : calls[c].i = n_slides \div 2

\* C3: at every point of a stream_presentation run at most one of the slides
\* yielded so far carries a question.
C3_AtMostOneQuestionYielded ==
    Streaming => Cardinality(WithQuestion(yielded)) <= 1

\* C4: when the agenda-planning response does not parse as a list of
\* strings, _plan_agenda returns "Topic 1" .. "Topic n_slides".
C4_FallbackWhenNotListOfStrings ==
    (AgendaJustPlanned /\ ~IsListOfStrings(last_result.content))
        => subtopics = FallbackTopics(n_slides)

\* C5: when the one-shot inference call returns an object that is no
\* Presentation, generate_presentation raises LLMValidationError.
C5_WrongTypeIsValidationError ==
    (OneShot /\ engine = "LLMEngine" /\ pc = "responded" /\ last_result.kind = "other")
        => (outcome.raised /\ outcome.exc = "LLMValidationError")

\* C6: a schema mismatch on a slide step makes stream_presentation raise
\* LLMValidationError at that step: the slide is not yielded and no later
\* call is issued.
C6_SlideMismatchIsValidationError ==
    (Streaming /\ step.type \in SlideType /\ last_result.kind \in {"slide", "other", "raise"}
       /\ pc # "await_slide" /\ SchemaMismatch(step, last_result))
        => /\ StreamFailed
           /\ outcome.exc = "LLMValidationError"
           /\ Len(calls) = Len(yielded) + 2

\* C7: when the call of content step j raises, the consumer has observed
\* j + 2 slide events (title, agenda, content 0 .. j-1), then one error
\* event, and nothing more.
C7_MidStreamFailure ==
    (StreamOver /\ step.type = CONTENT /\ last_result.kind = "raise")
        => /\ Len(events) = step.i + 3
           /\ \A q \in 1 .. step.i + 2 :
                 /\ events[q].event = "message"
                 /\ events[q].slide.type = DeckTypes(n_slides)[q]
           /\ events[step.i + 3].event = "error"

\* C7 witness: the third content call (j = 2) raised; four slide events and
\* the error event were sent and the stream is closed.
C7_Witness ==
    /\ Streaming /\ pc = "closed"
    /\ step = Step(CONTENT, 2) /\ last_result.kind = "raise"
    /\ Len(events) = 5 /\ events[5].event = "error"

\* C8: the event stream holds at most one terminal event (done or error),
\* it is the last event, a stream consumed to the end holds exactly one, and
\* the done event is there only if stream_presentation ended without raising.
C8_OneTerminalEvent ==
    Streaming =>
        /\ Cardinality(TerminalEvents) <= 1
        /\ \A i \in TerminalEvents : i = Len(events)
        /\ StreamOver => Cardinality(TerminalEvents) = 1
        /\ outcome = Pending => TerminalEvents = {}
        /\ outcome # Pending => Cardinality(TerminalEvents) = 1
        /\ \A i \in TerminalEvents :
              /\ events[i].event = "done" <=> outcome = Returned(<<>>)
              /\ events[i].event = "error" <=> outcome.raised

\* C8 witness: a stream consumed to the end whose last event is the done
\* event, after the slide events of a full deck.
C8_Witness ==
    /\ Streaming /\ pc = "closed"
    /\ Len(events) = n_slides + 4
    /\ events[Len(events)].event = "done"
    /\ \A i \in 1 .. n_slides + 3 : events[i].event = "message"

\* C9: the one-shot endpoint answers 200 to a returned Presentation, 422 to
\* LLMValidationError, 500 to LLMGenerationError and to any other exception.
C9_OneShotStatus ==
    (OneShot /\ pc = "responded") =>
        /\ ~outcome.raised => (response.status = 200 /\ response.body = outcome.value)
        /\ (outcome.raised /\ outcome.exc = "LLMValidationError") => response.status = 422
        /\ (outcome.raised /\ outcome.exc = "LLMGenerationError") => response.status = 500
        /\ (outcome.raised /\ outcome.exc \notin {"LLMValidationError", "LLMGenerationError"})
              => response.status = 500
        /\ response.status \in {200, 422, 500}

\* C9 witness: the inference call of LLMEngine raised a pydantic
\* ValidationError and the endpoint answered 422.
C9_Witness ==
    /\ OneShot /\ engine = "LLMEngine" /\ pc = "responded"
    /\ last_result = RaisesValidationError
    /\ outcome.exc = "LLMValidationError" /\ response.status = 422

\* What the client of a failed run sees last: the error event of the stream.
ClientErrorEvent(res) ==
    LET o == stream_presentation_except(res.exc, res.msg)
    IN sse_error_event(o.exc, o.msg)

\* C10: the client-visible response or error event of a run in which the
\* inference call raised an unexpected exception is the same as that of the
\* run that differs only in the exception's message.
C10_NoDetailLeak ==
    /\ (OneShot /\ engine = "LLMEngine" /\ pc = "responded"
          /\ last_result.kind = "raise" /\ last_result.exc = "Exception")
         => \A m \in Msgs :
               generate_slides(generate_presentation(Raises("Exception", m))) = response
    /\ (StreamOver /\ last_result.kind = "raise" /\ last_result.exc = "Exception")
         => \A m \in Msgs :
               ClientErrorEvent(Raises("Exception", m)) = events[Len(events)]

\* ---------------------------------------------------------- Question schema

\* A str is a sequence of characters; these stand for a lower-case letter,
\* its upper-case form, another letter, a digit and white space.
Chars == {"a", "A", "b", "1", " "}
Strs(n) == UNION {[1 .. k -> Chars] : k \in 0 .. n}

\* str.strip(): the leading and the trailing white space removed.
RECURSIVE str_lstrip(_)
str_lstrip(s) == IF s # <<>> /\ Head(s) = " " THEN str_lstrip(Tail(s)) ELSE s
RECURSIVE str_rstrip(_)
str_rstrip(s) ==
    IF s # <<>> /\ s[Len(s)] = " " THEN str_rstrip(SubSeq(s, 1, Len(s) - 1)) ELSE s
str_strip(s) == str_rstrip(str_lstrip(s))

\* str.isalpha() and str.upper() of one character.
isalpha(c) == c \in {"a", "A", "b"}
upper(c) == IF c = "a" THEN "A" ELSE IF c = "b" THEN "B" ELSE c

\* The validator without its isalpha() test on the one-character answer.
validate_answer_in_options_NoIsAlpha(answer, options) ==
    LET answer_normalized == str_strip(answer)
        options_normalized == [i \in 1 .. Len(options) |-> str_strip(options[i])]
    IN \/ \E i \in 1 .. Len(options) : answer_normalized = options_normalized[i]
       \/ /\ Len(answer_normalized) = 1
          /\ \E i \in 1 .. Len(options) :
                 /\ options_normalized[i] # <<>>
                 /\ upper(answer_normalized[1]) = upper(options_normalized[i][1])

\* Question.validate_answer_in_options: TRUE when the object is constructed,
\* FALSE when ValueError is raised.  The label of an empty option is the
\* empty string, which no one-character answer equals.
validate_answer_in_options(answer, options) ==
    LET answer_normalized == str_strip(answer)
        options_normalized == [i \in 1 .. Len(options) |-> str_strip(options[i])]
    IN \/ \E i \in 1 .. Len(options) : answer_normalized = options_normalized[i]
       \/ /\ Len(answer_normalized) = 1
          /\ isalpha(answer_normalized[1])
          /\ \E i \in 1 .. Len(options) :
                 /\ options_normalized[i] # <<>>
                 /\ upper(answer_normalized[1]) = upper(options_normalized[i][1])

\* The options lists handed to Question(...): min_length options, one of
\* them of any length up to MaxStrLen, the other of at most one character.
OptionLists ==
    {<<a, b>> : a \in Strs(MaxStrLen), b \in Strs(1)}
        \cup {<<b, a>> : a \in Strs(MaxStrLen), b \in Strs(1)}

\* ------------------------------------------------------ LessonRequest schema

\* A str of lead white-space characters, body other characters and trail
\* white-space characters.
Str(lead, body, trail) ==
    [i \in 1 .. lead + body + trail |-> IF i <= lead \/ i > lead + body THEN " " ELSE "a"]

\* The lengths around the bounds of a field, and the strs of those lengths
\* with up to MaxPad white-space characters on either side.
LensAround(min, max) == {0, 1} \cup (min - 1 .. min + 1) \cup (max - 1 .. max + 1)
PaddedStrs(min, max) ==
    {Str(l, b, t) : l \in 0 .. MaxPad, b \in LensAround(min, max), t \in 0 .. MaxPad}

\* The field constraints min_length and max_length, which pydantic applies
\* to the value it was given, before any field_validator of the default
\* (after) mode runs.
field_length(v, min, max) ==
    IF Len(v) < min THEN "string_too_short"
    ELSE IF Len(v) > max THEN "string_too_long"
    ELSE "ok"

\* The field validator of topic that returns its argument as it came.
validate_and_sanitize_topic_NoStrip(v) ==
    IF str_strip(v) = <<>> THEN [error |-> "empty", value |-> <<>>]
    ELSE [error |-> "ok", value |-> v]

\* validate_and_sanitize_topic and validate_and_sanitize_grade.
validate_and_sanitize_topic(v) ==
    LET sanitized == str_strip(v)
    IN IF sanitized = <<>> THEN [error |-> "empty", value |-> <<>>]
       ELSE [error |-> "ok", value |-> sanitized]
validate_and_sanitize_grade(v) ==
    LET sanitized == str_strip(v)
    IN IF sanitized = <<>> THEN [error |-> "empty", value |-> <<>>]
       ELSE [error |-> "ok", value |-> sanitized]

\* One field of LessonRequest: its constraints, then its validator.
validate_field(constraint, validated) ==
    IF constraint # "ok" THEN [error |-> constraint, value |-> <<>>] ELSE validated

\* LessonRequest(topic=topic, grade=grade, n_slides=...) with a valid
\* n_slides and the default context: the object stored, or the errors.
LessonRequest(topic, grade) ==
    LET t == validate_field(field_length(topic, TopicMin, TopicMax),
                            validate_and_sanitize_topic(topic))
        g == validate_field(field_length(grade, GradeMin, GradeMax),
                            validate_and_sanitize_grade(grade))
    IN [error |-> IF t.error = "ok" /\ g.error = "ok" THEN "ok" ELSE "validation_error",
        topic_error |-> t.error, grade_error |-> g.error,
        topic |-> t.value, grade |-> g.value]

\* ------------------------------------------- Settings and LLMEngine.__init__

\* The truth value Python gives a str or None: None and "" are false.
Truthy(v) == v \notin {None, ""}

\* The values of the settings read at construction, and the provider
\* argument of LLMEngine(...).
ApiKeys == {None, "", "key"}
Providers == {"openai", "google", "azure"}
Settings ==
    [OPENAI_API_KEY : ApiKeys, GOOGLE_API_KEY : ApiKeys, DEFAULT_LLM_PROVIDER : Providers]
ProviderArgs == {None, ""} \cup Providers

\* Settings.get_llm_provider
get_llm_provider(settings) ==
    IF settings.DEFAULT_LLM_PROVIDER = "openai" /\ Truthy(settings.OPENAI_API_KEY)
    THEN Returned("openai")
    ELSE IF Truthy(settings.GOOGLE_API_KEY) THEN Returned("google")
    ELSE Raised("ValueError",
                "No LLM provider configured. Please set OPENAI_API_KEY or GOOGLE_API_KEY")

\* LLMEngine._initialize_llm: the client built, or ValueError.
initialize_llm(provider, settings) ==
    IF provider = "openai"
    THEN (IF ~Truthy(settings.OPENAI_API_KEY)
          THEN Raised("ValueError", "OPENAI_API_KEY is required for OpenAI provider")
          ELSE Returned("ChatOpenAI"))
    ELSE IF provider = "google"
    THEN (IF ~Truthy(settings.GOOGLE_API_KEY)
          THEN Raised("ValueError", "GOOGLE_API_KEY is required for Google provider")
          ELSE Returned("ChatGoogleGenerativeAI"))
    ELSE Raised("ValueError", "Unsupported LLM provider: " \o provider)

\* LLMEngine._get_default_model: for openai it reads
\* settings.FALLBACK_MODEL, an attribute Settings does not define, so
\* AttributeError is raised; otherwise settings.DEFAULT_MODEL.
get_default_model(provider, settings) ==
    IF provider = "openai"
    THEN Raised("AttributeError", "'Settings' object has no attribute 'FALLBACK_MODEL'")
    ELSE Returned("gemini-1.5-flash")

\* LLMEngine(provider=provider), model and temperature left to their
\* defaults: self.provider = provider or settings.get_llm_provider(), then
\* self.model = self._get_default_model(), then
\* self.llm = self._initialize_llm(); the engine, or the exception that
\* leaves the constructor.
NoEngine == [provider |-> None, llm |-> None]
LLMEngine_init(provider, settings) ==
    LET selected == IF Truthy(provider) THEN Returned(provider) ELSE get_llm_provider(settings)
    IN IF selected.raised THEN [raised |-> TRUE, exc |-> selected.exc, engine |-> NoEngine]
       ELSE LET model == get_default_model(selected.value, settings)
                llm == initialize_llm(selected.value, settings)
            IN IF model.raised THEN [raised |-> TRUE, exc |-> model.exc, engine |-> NoEngine]
               ELSE IF llm.raised THEN [raised |-> TRUE, exc |-> llm.exc, engine |-> NoEngine]
               ELSE [raised |-> FALSE, exc |-> None,
                     engine |-> [provider |-> selected.value, llm |-> llm.value]]

\* ------------------------------------------- construction of schema models

\* The variables of a request in progress: constructing a model touches none.
request_vars == <<endpoint, engine, n_slides, pc, step, last_result, subtopics,
                  calls, yielded, outcome, events, response, runs>>

\* Slides without an image query: the Presentation validator reads only
\* type and question.
PlainSlides == {s \in Slide : s.image = None}

\* The lists of slides handed to Presentation(...).
SlideLists == UNION {[1 .. n -> PlainSlides] : n \in 0 .. MaxDeck}

\* Presentation(topic=..., grade=..., slides=slides): the min_length of the
\* field, then validate_presentation_structure; error is "ok" when the
\* object is constructed, else the rule of the ValidationError.  One
\* construction is followed per behaviour.
ConstructPresentation ==
    /\ construct = NoConstruct
    /\ \E slides \in SlideLists :
           /\ construct' = [model |-> "Presentation",
                            input |-> slides,
                            error |-> validate_presentation_structure(slides),
                            position |-> IF validate_presentation_structure(slides) = "content_type"
                                         THEN content_type_position(slides) ELSE 0]
           /\ UNCHANGED request_vars

\* Slide(type=..., title=..., content=..., image=..., question=...) with
\* field values that pass the field constraints, then validate_slide_structure.
ConstructSlide ==
    /\ construct = NoConstruct
    /\ \E fields \in [type : SlideType, title : SlideTitles, content : SlideContents,
                      image : SlideImages, question : SlideQuestions] :
           /\ construct' = [model |-> "Slide",
                            input |-> fields,
                            error |-> IF validate_slide_structure(fields.type, fields.question)
                                      THEN "ok" ELSE "question_on_content"]
           /\ UNCHANGED request_vars

\* Question(prompt=..., options=options, answer=answer) with a valid prompt
\* and a valid number of options, then validate_answer_in_options.
ConstructQuestion ==
    /\ construct = NoConstruct
    /\ \E answer \in Strs(MaxStrLen), options \in OptionLists :
           /\ Len(options) \in OptionsMin .. OptionsMax
           /\ construct' = [model |-> "Question",
                            input |-> [answer |-> answer, options |-> options],
                            error |-> IF validate_answer_in_options(answer, options)
                                      THEN "ok" ELSE "answer_in_options"]
           /\ UNCHANGED request_vars

\* LessonRequest(...) from a topic and a grade of lengths around the bounds.
ConstructLessonRequest ==
    /\ construct = NoConstruct
    /\ \E topic \in PaddedStrs(TopicMin, TopicMax), grade \in PaddedStrs(GradeMin, GradeMax) :
           /\ construct' = [model |-> "LessonRequest",
                            input |-> [topic |-> topic, grade |-> grade],
                            error |-> LessonRequest(topic, grade).error,
                            stored |-> LessonRequest(topic, grade)]
           /\ UNCHANGED request_vars

\* settings.get_llm_provider() on some settings.
CallGetLLMProvider ==
    /\ construct = NoConstruct
    /\ \E settings \in Settings :
           /\ construct' = [model |-> "get_llm_provider",
                            input |-> settings,
                            result |-> get_llm_provider(settings)]
           /\ UNCHANGED request_vars

\* LLMEngine(provider=provider) under some settings.
ConstructLLMEngine ==
    /\ construct = NoConstruct
    /\ \E settings \in Settings, provider \in ProviderArgs :
           /\ construct' = [model |-> "LLMEngine",
                            input |-> [provider |-> provider, settings |-> settings],
                            result |-> LLMEngine_init(provider, settings)]
           /\ UNCHANGED request_vars

SchemaNext ==
    \/ CallGetLLMProvider
    \/ ConstructLLMEngine
    \/ ConstructPresentation
    \/ ConstructSlide
    \/ ConstructQuestion
    \/ ConstructLessonRequest

\* No request is in progress while a model is constructed.
SchemaInit == Init /\ n_slides = NSlidesMin

SchemaSpec == SchemaInit /\ [][SchemaNext]_vars

\* ------------------------------------------- two invocations interleaved

\* Two requests are served at once; get_llm_engine builds a new LLMEngine
\* for each, and each invocation keeps its state in its own frame.
RunIds == {1, 2}

\* The variables of the one request followed elsewhere and of constructions.
single_vars == <<endpoint, engine, n_slides, pc, step, last_result, subtopics,
                 calls, yielded, outcome, events, response, construct>>

\* The results the inference capability hands to the interleaved invocations.
RunPlanResults ==
    {Result("message", NoSlide, <<>>, c) :
        c \in {JsonList(StrLits, 0), JsonList(StrLits, 1), JsonList(StrLits, MaxList),
               <<Word("Here"), SP, Word("you"), SP, Word("go")>>}}
    \cup {RaisesValidationError, Raises("Exception", "connection reset by 10.0.0.7")}
RunSlideResults ==
    {Result("slide", s, <<>>, <<>>) :
        s \in {x \in Slide : x.image = None /\ x.type \in {TITLE, CONTENT}
                                 /\ (x.type = CONTENT => x.question # None)}}
    \cup {OtherObject}
RunPresentationResults ==
    {Result("presentation", NoSlide, p, <<>>) :
        p \in {d \in Presentation : Len(d) = 4 /\ \A i \in 1 .. 4 : d[i].image = None}}
    \cup {OtherObject, RaisesValidationError}

\* The frame of an invocation: the request it serves, where it is
\* suspended, its local variables, what it yielded, how it ended, and the
\* results its awaits received so far.
Frame(mode, n, at) ==
    [mode |-> mode, n_slides |-> n, pc |-> at, step |-> NoStep, subtopics |-> <<>>,
     yielded |-> <<>>, outcome |-> Pending, responses |-> <<>>]
IdleFrame == Frame(None, 0, "idle")

\* Every invocation would keep the local variable subtopics of
\* stream_presentation in the frame of invocation 1.
subtopics_frame_Shared(r) == 1

\* The frame that holds the local variable subtopics of invocation r: its own.
subtopics_frame(r) == r

ConcurrentInit ==
    /\ endpoint = "none"
    /\ engine = "LLMEngine"
    /\ n_slides = NSlidesMin
    /\ pc = "idle"
    /\ step = NoStep
    /\ last_result = NoResult
    /\ subtopics = <<>>
    /\ calls = <<>>
    /\ yielded = <<>>
    /\ outcome = Pending
    /\ events = <<>>
    /\ response = NoResponse
    /\ construct = NoConstruct
    /\ runs = [r \in RunIds |-> IdleFrame]

\* A request arrives: generate_presentation awaits chain.ainvoke, or
\* stream_presentation awaits the agenda-planning call.
RunStarts(r) ==
    /\ runs[r].pc = "idle"
    /\ \E n \in NSlidesMin .. Min(MaxRunSlides, NSlidesMax) :
          \/ runs' = [runs EXCEPT ![r] = Frame("presentation", n, "await_presentation")]
          \/ runs' = [runs EXCEPT ![r] = Frame("stream", n, "await_agenda_planning")]
    /\ UNCHANGED single_vars

\* The call of generate_presentation ends.
RunPresentationReturns(r) ==
    /\ runs[r].pc = "await_presentation"
    /\ \E res \in RunPresentationResults :
          runs' = [runs EXCEPT ![r].outcome = generate_presentation(res),
                               ![r].responses = Append(@, res),
                               ![r].pc = "over"]
    /\ UNCHANGED single_vars

\* The agenda-planning call of invocation r raises.
RunPlanningFails(r) ==
    /\ runs[r].pc = "await_agenda_planning"
    /\ \E res \in RunPlanResults :
          /\ res.kind = "raise"
          /\ runs' = [runs EXCEPT ![r].outcome = stream_presentation_except(res.exc, res.msg),
                                  ![r].responses = Append(@, res),
                                  ![r].pc = "over"]
    /\ UNCHANGED single_vars

\* The agenda-planning call of invocation r returns: subtopics is assigned
\* and the call of the title slide is awaited.
RunPlanningReturns(r) ==
    /\ runs[r].pc = "await_agenda_planning"
    /\ \E res \in RunPlanResults :
          /\ res.kind = "message"
          /\ runs' = [runs EXCEPT
                         ![subtopics_frame(r)].subtopics = plan_agenda(res.content, runs[r].n_slides),
                         ![r].responses = Append(@, res),
                         ![r].step = Step(TITLE, 0),
                         ![r].pc = "await_slide"]
    /\ UNCHANGED single_vars

\* The slide call of invocation r ends with a slide, which is yielded.
RunSlideYielded(r) ==
    /\ runs[r].pc = "await_slide"
    /\ \E res \in RunSlideResults :
          LET got == generate_single_slide(runs[r].step.type, res)
          IN /\ ~got.raised
             /\ runs' = [runs EXCEPT ![r].yielded = Append(@, got.value),
                                     ![r].responses = Append(@, res),
                                     ![r].pc = "slide_yielded"]
    /\ UNCHANGED single_vars

\* The slide call of invocation r ends and _generate_single_slide raises.
RunSlideFails(r) ==
    /\ runs[r].pc = "await_slide"
    /\ \E res \in RunSlideResults :
          LET got == generate_single_slide(runs[r].step.type, res)
          IN /\ got.raised
             /\ runs' = [runs EXCEPT ![r].outcome = stream_presentation_except(got.exc, got.msg),
                                     ![r].responses = Append(@, res),
                                     ![r].pc = "over"]
    /\ UNCHANGED single_vars

\* Invocation r is resumed after a yield and awaits the call of its next step.
RunIssueNextCall(r) ==
    /\ runs[r].pc = "slide_yielded"
    /\ runs[r].step.type # CONCLUSION
    /\ runs' = [runs EXCEPT ![r].step = NextStep(@, runs[subtopics_frame(r)].subtopics),
                            ![r].pc = "await_slide"]
    /\ UNCHANGED single_vars

\* Invocation r is resumed after the yield of its conclusion slide and ends.
RunCompletes(r) ==
    /\ runs[r].pc = "slide_yielded"
    /\ runs[r].step.type = CONCLUSION
    /\ runs' = [runs EXCEPT ![r].outcome = Returned(<<>>), ![r].pc = "over"]
    /\ UNCHANGED single_vars

ConcurrentNext ==
    \E r \in RunIds :
        \/ RunStarts(r)
        \/ RunPresentationReturns(r)
        \/ RunPlanningFails(r)
        \/ RunPlanningReturns(r)
        \/ RunSlideYielded(r)
        \/ RunSlideFails(r)
        \/ RunIssueNextCall(r)
        \/ RunCompletes(r)

ConcurrentSpec == ConcurrentInit /\ [][ConcurrentNext]_vars

\* generate_presentation of LLMEngine has ended.
OneShotOver == OneShot /\ engine = "LLMEngine" /\ pc = "responded"

\* C11: generate_presentation either raises or returns the object the
\* inference call returned, unchanged, and that object satisfies the
\* Presentation invariants; it returns nothing else.
C11_OneShotAllOrNothing ==
    OneShotOver =>
        \/ outcome.raised
        \/ /\ last_result.kind = "presentation"
           /\ outcome.value = last_result.slides
           /\ validate_presentation_structure(outcome.value) = "ok"
           /\ response.body = last_result.slides

\* C11 witness: generate_presentation returned a deck of at least four slides.
C11_Witness ==
    OneShotOver /\ ~outcome.raised /\ Len(outcome.value) >= 4 /\ response.status = 200

\* C12: a Presentation returned by one-shot mode for n_slides = k has
\* exactly k + 3 slides.
C12_OneShotKPlus3 ==
    (OneShotOver /\ ~outcome.raised) => Len(outcome.value) = n_slides + 3

\* The structure the Presentation docstring states, rule by rule.
FirstIsTitle(slides) == Len(slides) >= 1 /\ slides[1].type = TITLE
SecondIsAgenda(slides) == Len(slides) >= 2 /\ slides[2].type = AGENDA
LastIsConclusion(slides) == Len(slides) >= 1 /\ slides[Len(slides)].type = CONCLUSION
Middle(slides) == 3 .. Len(slides) - 1
MiddleNonEmpty(slides) == Middle(slides) # {}
MiddleAllContent(slides) == \A i \in Middle(slides) : slides[i].type = CONTENT
AtMostOneQuestion(slides) == Cardinality(WithQuestion(slides)) <= 1
QuestionOnContent(slides) ==
    \A i \in 1 .. Len(slides) : slides[i].question # None => slides[i].type = CONTENT

\* C13: constructing a Presentation from a list of valid slides succeeds
\* exactly when the first slide is TITLE, the second AGENDA, the last
\* CONCLUSION, the slides between them are non-empty and all CONTENT, and
\* at most one slide carries a question.
C13_PresentationIffStructure ==
    construct.model = "Presentation" =>
        LET slides == construct.input
        IN (construct.error = "ok") <=>
               /\ FirstIsTitle(slides)
               /\ SecondIsAgenda(slides)
               /\ LastIsConclusion(slides)
               /\ MiddleNonEmpty(slides)
               /\ MiddleAllContent(slides)
               /\ AtMostOneQuestion(slides)

\* C13 witness: a well-ordered deck was rejected for its second question.
C13_Witness ==
    /\ construct.model = "Presentation"
    /\ construct.error = "one_question"
    /\ Types(construct.input) = <<TITLE, AGENDA, CONTENT, CONTENT, CONCLUSION>>

\* The rules in the order the spec lists them, and those a list violates.
RuleOrder ==
    <<"first_title", "second_agenda", "last_conclusion", "content_nonempty",
      "content_type", "one_question", "question_on_content">>
Violated(slides) ==
    {r \in {RuleOrder[i] : i \in 1 .. Len(RuleOrder)} :
        \/ r = "first_title" /\ ~FirstIsTitle(slides)
        \/ r = "second_agenda" /\ ~SecondIsAgenda(slides)
        \/ r = "last_conclusion" /\ ~LastIsConclusion(slides)
        \/ r = "content_nonempty" /\ ~MiddleNonEmpty(slides)
        \/ r = "content_type" /\ ~MiddleAllContent(slides)
        \/ r = "one_question" /\ ~AtMostOneQuestion(slides)
        \/ r = "question_on_content" /\ ~QuestionOnContent(slides)}
FirstViolated(slides) ==
    RuleOrder[CHOOSE i \in 1 .. Len(RuleOrder) :
                  /\ RuleOrder[i] \in Violated(slides)
                  /\ \A j \in 1 .. i - 1 : RuleOrder[j] \notin Violated(slides)]

\* C14: for a list of at least three slides that violates the structure,
\* the error reported is the first violated rule in the order first slide,
\* second slide, last slide, content non-empty, content all CONTENT, at
\* most one question, question on a content slide; a non-CONTENT middle
\* slide is reported at the lowest such position.
C14_FirstViolatedRuleReported ==
    (construct.model = "Presentation" /\ Len(construct.input) >= 3
        /\ Violated(construct.input) # {}) =>
        LET slides == construct.input
        IN /\ construct.error = FirstViolated(slides)
           /\ construct.error = "content_type" =>
                  /\ slides[construct.position].type # CONTENT
                  /\ \A i \in Middle(slides) :
                         i < construct.position => slides[i].type = CONTENT

\* C14 witness: a list whose last slide and two middle slides are wrong and
\* which carries two questions was reported for its last slide.
C14_Witness ==
    /\ construct.model = "Presentation"
    /\ {"last_conclusion", "content_type", "one_question"} \subseteq Violated(construct.input)
    /\ construct.error = "last_conclusion"

\* C14 witness of the position: two wrong middle slides, the lower reported.
C14_WitnessPosition ==
    /\ construct.model = "Presentation"
    /\ construct.error = "content_type"
    /\ Cardinality({i \in Middle(construct.input) : construct.input[i].type # CONTENT}) = 2
    /\ construct.position = 3

\* C16: constructing a Slide of type TITLE, AGENDA or CONCLUSION with a
\* question fails, and every constructed Slide that carries a question is
\* a CONTENT slide.
C16_QuestionOnlyOnContent ==
    /\ construct.model = "Slide" =>
           /\ (construct.input.type \in {TITLE, AGENDA, CONCLUSION}
                  /\ construct.input.question # None) => construct.error # "ok"
           /\ (construct.error = "ok" /\ construct.input.question # None)
                  => construct.input.type = CONTENT
    /\ \A s \in Slide : s.question # None => s.type = CONTENT

\* C16 witness: a CONCLUSION slide with a question was refused.
C16_Witness ==
    /\ construct.model = "Slide"
    /\ construct.input.type = CONCLUSION
    /\ construct.input.question # None
    /\ construct.error = "question_on_content"

\* Letters compared without regard to case, by their lower-case form.
Lower(c) == IF c = "A" THEN "a" ELSE c
Letters == {"a", "A", "b"}

\* C15: with a valid prompt and a valid number of options, constructing a
\* Question succeeds exactly when the trimmed answer equals some trimmed
\* option, or is one letter equal, case ignored, to the first character of
\* some trimmed option.
C15_AnswerMatchesOption ==
    construct.model = "Question" =>
        LET answer == str_strip(construct.input.answer)
            options == {str_strip(construct.input.options[i]) :
                            i \in 1 .. Len(construct.input.options)}
        IN (construct.error = "ok") <=>
               \/ answer \in options
               \/ /\ Len(answer) = 1
                  /\ answer[1] \in Letters
                  /\ \E o \in options : Len(o) >= 1 /\ Lower(o[1]) = Lower(answer[1])

\* C15 witness: the answer " a" was accepted as the label of the trimmed
\* option "A1", which it does not equal.
C15_Witness ==
    /\ construct.model = "Question"
    /\ construct.input.answer = <<" ", "a">>
    /\ construct.input.options[1] = <<"A", "1">>
    /\ str_strip(construct.input.options[2]) # <<"a">>
    /\ Len(construct.input.options[2]) = 1
    /\ Lower(construct.input.options[2][1]) # "a"
    /\ construct.error = "ok"

\* The input without its leading and trailing white space: from its first
\* to its last character that is not white space.
Trimmed(s) ==
    LET i == CHOOSE i \in 1 .. Len(s) + 1 :
                 /\ \A k \in 1 .. i - 1 : s[k] = " "
                 /\ i = Len(s) + 1 \/ s[i] # " "
        j == CHOOSE j \in 0 .. Len(s) :
                 /\ \A k \in j + 1 .. Len(s) : s[k] = " "
                 /\ j = 0 \/ s[j] # " "
    IN SubSeq(s, i, j)

\* C17: a constructed LessonRequest stores the topic and the grade without
\* their leading and trailing white space, and construction fails when
\* either is empty once trimmed.
C17_StoredIsTrimmed ==
    construct.model = "LessonRequest" =>
        /\ construct.error = "ok" =>
               /\ construct.stored.topic = Trimmed(construct.input.topic)
               /\ construct.stored.grade = Trimmed(construct.input.grade)
        /\ (Trimmed(construct.input.topic) = <<>> \/ Trimmed(construct.input.grade) = <<>>)
               => construct.error # "ok"

\* C17 witness: a padded topic and a padded grade were stored trimmed.
C17_Witness ==
    /\ construct.model = "LessonRequest"
    /\ construct.error = "ok"
    /\ construct.input.topic = Str(2, 4, 1)
    /\ construct.input.grade = Str(1, 2, 2)
    /\ construct.stored.topic = Str(0, 4, 0)

\* C17 witness of the failure: a grade of white space only was refused by
\* the validator, its length being within the bounds.
C17_WitnessEmpty ==
    /\ construct.model = "LessonRequest"
    /\ construct.input.grade = Str(2, 0, 0)
    /\ construct.stored.grade_error = "empty"

\* C18: the length bounds apply to the trimmed values: a constructed
\* LessonRequest stores a topic of 3..100 and a grade of 1..50 characters,
\* and an input whose trimmed values are within these bounds is accepted.
C18_BoundsOnTrimmed ==
    construct.model = "LessonRequest" =>
        /\ construct.error = "ok" =>
               /\ Len(construct.stored.topic) \in TopicMin .. TopicMax
               /\ Len(construct.stored.grade) \in GradeMin .. GradeMax
        /\ (Len(Trimmed(construct.input.topic)) \in TopicMin .. TopicMax
                /\ Len(Trimmed(construct.input.grade)) \in GradeMin .. GradeMax)
               => construct.error = "ok"

\* The order of the calls of a run with m planned subtopics: agenda
\* planning, title, agenda slide, content 0 .. m-1, conclusion.
CallOrder(m) ==
    <<<<"agenda_planning", 0>>, <<TITLE, 0>>, <<AGENDA, 0>>>>
        \o [i \in 1 .. m |-> <<CONTENT, i - 1>>] \o <<<<CONCLUSION, 0>>>>
Issued == [c \in 1 .. Len(calls) |-> <<calls[c].target, calls[c].i>>]
IsPrefix(s, t) == Len(s) <= Len(t) /\ s = SubSeq(t, 1, Len(s))

\* The calls of the run that ended: the planning call once it returned or
\* raised, and one call per slide yielded or refused.
CallsEnded ==
    IF pc = "await_agenda_planning" THEN 0
    ELSE IF pc = "await_slide" THEN Len(yielded) + 1
    ELSE Len(calls)

\* C19: within one stream_presentation run the calls are issued in the
\* order agenda planning, title, agenda slide, content 0, 1, ..., conclusion;
\* a call is issued only when every earlier call has ended, so at most one
\* is in flight, and the slide of a call is yielded before the next call is
\* issued.
C19_CallsInOrderOneInFlight ==
    Streaming =>
        /\ IF pc = "await_agenda_planning" THEN Issued = <<<<"agenda_planning", 0>>>>
           ELSE IsPrefix(Issued, CallOrder(Len(subtopics)))
        /\ Len(calls) - CallsEnded \in {0, 1}
        /\ pc = "await_slide" => Len(calls) = Len(yielded) + 2
        /\ pc = "slide_yielded" => Len(calls) = Len(yielded) + 1
        /\ \A i \in 1 .. Len(yielded) : yielded[i].type = calls[i + 1].target
        /\ StreamCompleted => Issued = CallOrder(Len(subtopics))

\* C19 witness: the call of content slide 1 is in flight, after the slides
\* of the title, the agenda and content slide 0 were yielded.
C19_Witness ==
    /\ Streaming
    /\ pc = "await_slide"
    /\ step = Step(CONTENT, 1)
    /\ Len(yielded) = 3
    /\ Len(calls) = 5

\* An invocation run alone on the results rs: the slides it yields and how
\* it ends, following stream_presentation from one await to the next.
RECURSIVE AloneSlides(_, _, _, _, _)
AloneSlides(n, topics, st, rs, sofar) ==
    IF rs = <<>> THEN [yielded |-> sofar, outcome |-> Pending]
    ELSE LET got == generate_single_slide(st.type, Head(rs))
         IN IF got.raised
            THEN [yielded |-> sofar, outcome |-> stream_presentation_except(got.exc, got.msg)]
            ELSE IF st.type = CONCLUSION
            THEN [yielded |-> Append(sofar, got.value), outcome |-> Returned(<<>>)]
            ELSE AloneSlides(n, topics, NextStep(st, topics), Tail(rs), Append(sofar, got.value))
Alone(mode, n, rs) ==
    IF rs = <<>> THEN [yielded |-> <<>>, outcome |-> Pending]
    ELSE IF mode = "presentation"
    THEN [yielded |-> <<>>, outcome |-> generate_presentation(Head(rs))]
    ELSE IF Head(rs).kind = "raise"
    THEN [yielded |-> <<>>, outcome |-> stream_presentation_except(Head(rs).exc, Head(rs).msg)]
    ELSE AloneSlides(n, plan_agenda(Head(rs).content, n), Step(TITLE, 0), Tail(rs), <<>>)

\* C20: under every interleaving of two invocations, each yields the slides
\* and ends the way it does when run alone on the results it received.
C20_InterleavingIndependent ==
    \A r \in RunIds :
        LET alone == Alone(runs[r].mode, runs[r].n_slides, runs[r].responses)
        IN /\ runs[r].yielded = alone.yielded
           /\ runs[r].outcome # Pending => runs[r].outcome = alone.outcome
           /\ alone.outcome.raised => runs[r].outcome = alone.outcome
           /\ runs[r].pc = "over" => runs[r].outcome # Pending

\* C20 witness: both invocations are suspended in the middle of their
\* streams, having planned different numbers of subtopics: one awaits the
\* call of its conclusion slide, the other has just yielded a content slide.
C20_Witness ==
    /\ \A r \in RunIds : runs[r].mode = "stream"
    /\ runs[1].pc = "await_slide" /\ runs[1].step.type = CONCLUSION
    /\ Len(runs[1].subtopics) = 1 /\ Len(runs[1].yielded) = 3
    /\ runs[2].pc = "slide_yielded" /\ runs[2].step = Step(CONTENT, 1)
    /\ Len(runs[2].subtopics) = 2 /\ Len(runs[2].yielded) = 4

\* The key of a provider is configured.
KeySet(provider, settings) ==
    \/ provider = "openai" /\ settings.OPENAI_API_KEY \notin {None, ""}
    \/ provider = "google" /\ settings.GOOGLE_API_KEY \notin {None, ""}

\* C22: constructing LLMEngine for a provider whose key is not configured,
\* or for a provider other than openai and google, raises ValueError and
\* leaves no engine; an engine is constructed only when the key of its
\* provider is set.
C22_EngineFailsFast ==
    construct.model = "LLMEngine" =>
        LET provider == construct.input.provider
            settings == construct.input.settings
            result == construct.result
        IN /\ (provider \notin {None, ""} /\ ~KeySet(provider, settings)) =>
                  /\ result.raised
                  /\ result.exc = "ValueError"
           /\ result.raised => result.exc = "ValueError" /\ result.engine = NoEngine
           /\ ~result.raised =>
                  /\ result.engine.provider \in {"openai", "google"}
                  /\ KeySet(result.engine.provider, settings)
                  /\ result.engine.llm # None

\* C23: for DEFAULT_LLM_PROVIDER openai or google, get_llm_provider
\* returns the default when both keys are set, openai when only the OpenAI
\* key is set, google when only the Google key is set, and raises
\* ValueError when neither is set.
C23_ProviderSelection ==
    (construct.model = "get_llm_provider"
        /\ construct.input.DEFAULT_LLM_PROVIDER \in {"openai", "google"}) =>
        LET settings == construct.input
            openai == KeySet("openai", settings)
            google == KeySet("google", settings)
            result == construct.result
        IN /\ (openai /\ google) => result = Returned(settings.DEFAULT_LLM_PROVIDER)
           /\ (openai /\ ~google) => result = Returned("openai")
           /\ (~openai /\ google) => result = Returned("google")
           /\ (~openai /\ ~google) => result.raised /\ result.exc = "ValueError"

\* C21: when the consumer stops iterating after it received a slide, the
\* run ends where it is suspended: that step issues no inference call and
\* yields no slide, no error event and no done event, and nothing happens
\* after it.  A run cancelled before stream_presentation ended stays
\* without outcome and without terminal event; a run cancelled at the
\* yield of its terminal event keeps that one event and its outcome.
C21_CancellationEndsRun ==
    /\ []((pc = "cancelled" /\ outcome = Pending) =>
             /\ TerminalEvents = {}
             /\ Len(events) = Len(yielded))
    /\ []((pc = "cancelled" /\ outcome # Pending) =>
             /\ TerminalEvents = {Len(events)}
             /\ Len(events) = Len(yielded) + 1)
    /\ [][(pc' = "cancelled" /\ Len(yielded) >= 1) =>
             /\ calls' = calls
             /\ yielded' = yielded
             /\ events' = events
             /\ outcome' = outcome]_vars
    /\ [][pc = "cancelled" => UNCHANGED vars]_vars

\* C21 witness: the consumer left after the first content slide of a run
\* that had two more calls to issue.
C21_Witness ==
    /\ pc = "cancelled"
    /\ outcome = Pending
    /\ step = Step(CONTENT, 0)
    /\ Len(subtopics) = 2
    /\ Len(yielded) = 3
    /\ Len(calls) = 4

\* C21 witness: the consumer left at the yield of the error event of a
\* stream that failed after two slides; the event and the outcome stay.
C21_WitnessTerminal ==
    /\ pc = "cancelled"
    /\ outcome.raised
    /\ Len(yielded) = 2
    /\ Len(events) = 3 /\ events[3].event = "error"

\* The lines of a prompt.
Lines(prompt) == {prompt[k] : k \in 1 .. Len(prompt)}
IsEven(i) == (i \div 2) * 2 = i

\* C24: every content step i that stream_presentation issues is rendered
\* with include_image exactly when i is even and include_question exactly
\* when i = n_slides // 2, and its prompt contains the image instruction
\* exactly when include_image and the question instruction exactly when
\* include_question.
C24_ContentStepFlagsAndPrompt ==
    Streaming =>
        \A c \in 1 .. Len(calls) :
            calls[c].target = CONTENT =>
                /\ calls[c].include_image <=> IsEven(calls[c].i)
                /\ calls[c].include_question <=> (calls[c].i = n_slides \div 2)
                /\ (ImageInstruction \in Lines(calls[c].prompt)) <=> calls[c].include_image
                /\ (QuestionInstruction \in Lines(calls[c].prompt)) <=> calls[c].include_question

\* C24 witness: content step 0 was issued with the image instruction only
\* and content step 1 with the question instruction only.
C24_Witness ==
    /\ Streaming
    /\ Len(calls) >= 5
    /\ calls[4].target = CONTENT /\ calls[4].i = 0
    /\ ImageInstruction \in Lines(calls[4].prompt)
    /\ QuestionInstruction \notin Lines(calls[4].prompt)
    /\ calls[5].target = CONTENT /\ calls[5].i = 1
    /\ ImageInstruction \notin Lines(calls[5].prompt)
    /\ QuestionInstruction \in Lines(calls[5].prompt)

\* The list the agenda-planning response at hand parses as.
ParsedAgenda == json_loads(strip_code_fence(last_result.content))

\* C25: when the agenda-planning response parses as a JSON list,
\* _plan_agenda returns its first min(length, n_slides) elements in their
\* order: a longer list is cut to n_slides entries, a shorter one is not
\* padded, and the result never has more than n_slides entries.
C25_AgendaTruncatedNeverPadded ==
    (AgendaJustPlanned /\ ParsedAgenda.ok /\ ParsedAgenda.kind = "list") =>
        LET items == ParsedAgenda.items
        IN /\ Len(subtopics) = (IF Len(items) < n_slides THEN Len(items) ELSE n_slides)
           /\ \A i \in 1 .. Len(subtopics) : subtopics[i] = items[i]
           /\ Len(subtopics) <= n_slides

\* C25 witness: a list of MaxList entries was cut to the n_slides first.
C25_Witness ==
    /\ AgendaJustPlanned
    /\ ParsedAgenda.ok /\ ParsedAgenda.kind = "list"
    /\ Len(ParsedAgenda.items) = MaxList
    /\ n_slides < MaxList
    /\ Len(subtopics) = n_slides
    /\ subtopics[n_slides] = ParsedAgenda.items[n_slides]

\* C25 witness of the shorter list: one entry for n_slides = 3, not padded.
C25_WitnessShorter ==
    /\ AgendaJustPlanned
    /\ ParsedAgenda.ok /\ ParsedAgenda.kind = "list"
    /\ Len(ParsedAgenda.items) = 1
    /\ n_slides = 3
    /\ Len(subtopics) = 1

\* The result of the slide step named by step is at hand and the step is over.
StepOver == Streaming /\ pc \in {"slide_yielded", "terminal_yielded", "closed"}

\* C26: when the call of a content step returns a valid Slide, that slide
\* is yielded with type CONTENT and the title, content, image and question
\* it came with: rebuilt when its type was another, as it is otherwise.
C26_ContentTypeForced ==
    (StepOver /\ step.type = CONTENT /\ last_result.kind = "slide") =>
        LET result == last_result.slide
            slide == yielded[Len(yielded)]
        IN /\ ~outcome.raised
           /\ Len(yielded) = step.i + 3
           /\ slide.type = CONTENT
           /\ slide.title = result.title
           /\ slide.content = result.content
           /\ slide.image = result.image
           /\ slide.question = result.question
           /\ result.type = CONTENT => slide = result

\* C26 witness: a content step received a CONCLUSION slide with an image
\* query and yielded it as a CONTENT slide.
C26_Witness ==
    /\ Streaming /\ pc = "slide_yielded"
    /\ step.type = CONTENT
    /\ last_result.kind = "slide"
    /\ last_result.slide.type = CONCLUSION
    /\ last_result.slide.image # None
    /\ yielded[Len(yielded)].type = CONTENT
    /\ yielded[Len(yielded)].image = last_result.slide.image

\* C27: when the title, agenda-slide or conclusion step receives a Slide of
\* another type, the stream fails at that step and the slide is not
\* yielded with its type rewritten.
C27_NoRepairOutsideContent ==
    (StepOver /\ step.type \in {TITLE, AGENDA, CONCLUSION}
        /\ last_result.kind = "slide" /\ last_result.slide.type # step.type) =>
        /\ outcome.raised
        /\ pc # "slide_yielded"

\* C29: in every state of a stream, the types of the slides yielded so far
\* are a prefix of TITLE, AGENDA, CONTENT ..., CONCLUSION, and every yielded
\* slide carries a question only if it is a CONTENT slide.
C29_YieldedPrefix ==
    Streaming =>
        /\ \E k \in 0 .. MaxList : IsPrefix(Types(yielded), DeckTypes(k))
        /\ \A i \in 1 .. Len(yielded) :
               yielded[i].question # None => yielded[i].type = CONTENT

\* C29 witness: a failed stream that yielded four slides, none of which
\* came from the inference call with the type of its step.
C29_Witness ==
    /\ StreamFailed
    /\ Types(yielded) = <<TITLE, AGENDA, CONTENT, CONTENT>>
    /\ last_result.kind = "other"
    /\ WithQuestion(yielded) = {3}

\* The class stream_presentation raises for an exception of class cls that
\* left one of its steps, as the claims state it: LLMValidationError for a
\* pydantic ValidationError, LLMGenerationError for every other exception.
ClassifiedAs(cls) ==
    IF cls = "ValidationError" THEN "LLMValidationError" ELSE "LLMGenerationError"

\* C30, as stated: every stream that ended on the failure of its
\* agenda-planning call ended with LLMGenerationError, yielded no slide,
\* assigned no subtopics and issued no call but the planning call.
C30_PlanningCallFailure_AsStated ==
    (StreamFailed /\ step = NoStep) =>
        /\ outcome.exc = "LLMGenerationError"
        /\ yielded = <<>>
        /\ subtopics = <<>>
        /\ \A c \in 1 .. Len(calls) : calls[c].target = "agenda_planning"

\* C30, amended: when the agenda-planning call raises, stream_presentation
\* raises LLMValidationError if the exception is a pydantic ValidationError
\* and LLMGenerationError otherwise: it yields no slide, assigns no
\* subtopics (the generic topics are not used) and issues no title-slide
\* call, in that step and ever after, and the client receives one error
\* event.
C30_PlanningCallFailure ==
    /\ [][(pc = "await_agenda_planning" /\ last_result'.kind = "raise") =>
             /\ outcome'.raised /\ outcome'.exc = ClassifiedAs(last_result'.exc)
             /\ yielded' = <<>>
             /\ subtopics' = <<>>
             /\ calls' = calls
             /\ pc' = "terminal_yielded"]_vars
    /\ []((StreamFailed /\ step = NoStep) =>
             /\ last_result.kind = "raise"
             /\ outcome.exc = ClassifiedAs(last_result.exc)
             /\ yielded = <<>>
             /\ subtopics = <<>>
             /\ \A c \in 1 .. Len(calls) : calls[c].target = "agenda_planning"
             /\ Len(events) = 1 /\ events[1].event = "error")

\* C30 witness: the stream of a request for three slides ended on a pydantic
\* ValidationError of its planning call, with LLMValidationError.
C30_Witness ==
    /\ StreamFailed
    /\ n_slides = 3
    /\ last_result = RaisesValidationError
    /\ outcome.exc = "LLMValidationError"
    /\ Len(calls) = 1
    /\ yielded = <<>>

\* C30 witness: the same stream ended on another exception of its planning
\* call, with LLMGenerationError.
C30_WitnessOther ==
    /\ StreamFailed
    /\ n_slides = 3
    /\ last_result.kind = "raise" /\ last_result.exc = "Exception"
    /\ outcome.exc = "LLMGenerationError"
    /\ Len(calls) = 1
    /\ yielded = <<>>

\* The stream has ended: after its terminal event, or where it was cancelled.
StreamEnded == Streaming /\ pc \in {"terminal_yielded", "closed", "cancelled"}

\* C28: if every inference call returns or fails, every stream ends, after
\* the conclusion slide or with a failure (or where its consumer left); a
\* run issues at most n_slides + 4 inference calls, and nothing is yielded
\* after the conclusion slide.
C28_StreamingIsFinite ==
    /\ Streaming ~> StreamEnded
    /\ [](Streaming =>
             /\ Len(calls) <= n_slides + 4
             /\ \A i \in 1 .. Len(yielded) - 1 : yielded[i].type # CONCLUSION
             /\ StreamCompleted => yielded[Len(yielded)].type = CONCLUSION)
    /\ [][(Streaming /\ yielded # <<>> /\ yielded[Len(yielded)].type = CONCLUSION)
             => (yielded' = yielded /\ calls' = calls)]_vars

\* C28 witness: a completed run for three slides that issued its seven calls.
C28_Witness ==
    /\ StreamCompleted
    /\ pc = "closed"
    /\ n_slides = 3
    /\ Len(calls) = n_slides + 4
    /\ Len(yielded) = n_slides + 3

====
